---- MODULE Spec2Model ----
(***************************************************************************)
(* SimpleTrans: the radiative-transfer grid engine of                      *)
(* src/src/simpletrans/radiative_transfer.py (AtmosphereGrid and its       *)
(* helper functions), with the atmosphere model of src/src/isa.py and the  *)
(* Planck function of src/src/simpletrans/plank.py.                        *)
(*                                                                         *)
(* Numbers.  numpy float64 values are modelled as exact rationals          *)
(* [n |-> numerator, d |-> denominator] in lowest terms with d > 0; the    *)
(* IEEE specials are the rationals with d = 0 (0/0 is nan, 1/0 is inf).    *)
(* Wavenumbers of raw samples are held in tenths of cm^-1 and stored       *)
(* altitudes in halves of a metre, so that x.5 ties and fractional         *)
(* altitudes exist in the model.                                           *)
(***************************************************************************)
EXTENDS Integers, Sequences, FiniteSets, TLC

VARIABLES
    pc,            \* position of the driver: "start", "done" (pure functions);
                   \*   "start", "built", "failed" (grid)
    a_1,           \* coerce_sorted_key_value_pair_to_target: key array
    a_2,           \*   value array
    target_array,  \*   target keys
    coerced,       \*   what the call returned (or the exception it raised)
    column_0,      \* integer_bin_means: float keys, in tenths
    column_1,      \*   values
    binned,        \*   what the call returned
    binned_data,   \* what the single-array integer_bin_means(data) returned
    gases,         \* table gases of the store: the gas names it lists
    optical_depths,\* table optical_depths: (gas, altitude, wave_no, optical_depth)
    request,       \* AtmosphereGrid(alt_range, wave_no_range, *gas)
    grid,          \* the AtmosphereGrid instance, or the exception __init__ raised
    alt_list,      \* fetch_od_from_db's local alt_list at its last call
    flux,          \* what the last flux_up call returned or raised
    calls,         \* flux_up calls made on the instance
    conn,          \* main's connection: "closed", "open", or "none" for None
    main,          \* position and locals of the population script main()
    inserted       \* what the last insert_query call returned or raised

coerceVars == <<a_1, a_2, target_array, coerced>>
binVars == <<column_0, column_1, binned, binned_data>>
storeVars == <<gases, optical_depths>>
gridVars == <<storeVars, request, grid, alt_list, flux, calls>>
popVars == <<conn, main, inserted>>
vars == <<pc, coerceVars, binVars, gridVars, popVars>>

-----------------------------------------------------------------------------
(* Bounds of the model *)

MaxKey == 5        \* integer keys of the coercion inputs are 0..MaxKey
MaxSamples == 3    \* raw samples handed to one integer_bin_means call
MaxRecords == 2    \* rows of the table optical_depths
MaxCalls == 2      \* flux_up calls on one instance
MaxLayers == 3     \* layers of a grid handed to flux_up directly
MaxRuns == 2       \* runs of main() on one database file

-----------------------------------------------------------------------------
(* Rational arithmetic standing for float64 *)

Abs(x) == IF x < 0 THEN -x ELSE x

RECURSIVE GCD(_, _)
GCD(a, b) == IF b = 0 THEN a ELSE GCD(b, a % b)

Sign(x) == IF x > 0 THEN 1 ELSE IF x < 0 THEN -1 ELSE 0

\* n/d in lowest terms; x/0 is nan for x = 0 and a signed infinity otherwise
Rat(n, d) ==
    IF d = 0 THEN [n |-> Sign(n), d |-> 0]
    ELSE LET g == GCD(Abs(n), Abs(d))
             s == IF d < 0 THEN -1 ELSE 1
         IN  [n |-> s * (n \div g), d |-> s * (d \div g)]

R(i) == [n |-> i, d |-> 1]
Zero == R(0)
One == R(1)
NaN == [n |-> 0, d |-> 0]

IsNaN(x) == x.d = 0 /\ x.n = 0
IsInf(x) == x.d = 0 /\ x.n # 0
IsFinite(x) == x.d # 0

RNeg(x) == [n |-> -x.n, d |-> x.d]

RAdd(x, y) ==
    IF IsNaN(x) \/ IsNaN(y) THEN NaN
    ELSE IF IsInf(x) /\ IsInf(y) THEN (IF x.n = y.n THEN x ELSE NaN)
    ELSE IF IsInf(x) THEN x
    ELSE IF IsInf(y) THEN y
    ELSE LET g == GCD(x.d, y.d)
         IN  Rat(x.n * (y.d \div g) + y.n * (x.d \div g), x.d * (y.d \div g))

RMul(x, y) ==
    IF IsNaN(x) \/ IsNaN(y) THEN NaN
    ELSE IF x.d = 0 \/ y.d = 0
         THEN (IF x.n = 0 \/ y.n = 0 THEN NaN
               ELSE [n |-> Sign(x.n) * Sign(y.n), d |-> 0])
    ELSE LET g1 == GCD(Abs(x.n), y.d)
             g2 == GCD(Abs(y.n), x.d)
         IN  Rat((x.n \div g1) * (y.n \div g2), (x.d \div g2) * (y.d \div g1))

\* float division: a zero divisor gives inf or nan (numpy warns, never raises)
RInv(x) ==
    IF IsNaN(x) THEN NaN
    ELSE IF IsInf(x) THEN Zero
    ELSE IF x.n = 0 THEN [n |-> 1, d |-> 0]
    ELSE Rat(x.d, x.n)

RDiv(x, y) ==
    IF IsFinite(x) /\ x.n = 0 /\ IsFinite(y) /\ y.n = 0 THEN NaN
    ELSE RMul(x, RInv(y))

RLess(x, y) == IsFinite(x) /\ IsFinite(y) /\ x.n * y.d < y.n * x.d

-----------------------------------------------------------------------------
(* Sequence helpers *)

SetOf(s) == {s[i] : i \in DOMAIN s}

RECURSIVE Perms(_)
\* every order of the elements of a set
Perms(S) ==
    IF S = {} THEN {<<>>}
    ELSE UNION {{<<x>> \o p : p \in Perms(S \ {x})} : x \in S}

RECURSIVE Ascending(_)
\* the elements of a set of integers as an ascending sequence
Ascending(S) ==
    IF S = {} THEN <<>>
    ELSE LET m == CHOOSE x \in S : \A y \in S : x <= y
         IN  <<m>> \o Ascending(S \ {m})

\* np.arange(lo, hi + 1, dtype=int)
arange_exclusive(lo, hi) == [i \in 1..(IF hi > lo THEN hi - lo ELSE 0) |-> lo + i - 1]
arange(lo, hi) == [i \in 1..(IF hi >= lo THEN hi - lo + 1 ELSE 0) |-> lo + i - 1]

-----------------------------------------------------------------------------
(* coerce_sorted_key_value_pair_to_target, radiative_transfer.py:106-142 *)

\* np.vstack((a_1, a_2)): the 2 x n array, held as its sequence of columns
vstack(keys, values) == [i \in DOMAIN keys |-> <<keys[i], values[i]>>]

\* np.hstack((a_12_array, np.array([[entry], [0]]))): the value put under a
\* key that the target has and the source lacks
fill_column_flipped(entry) == <<entry, One>>
fill_column(entry) == <<entry, Zero>>

RECURSIVE hstack_missing(_, _)
hstack_missing(a_12_array, entries) ==
    IF entries = <<>> THEN a_12_array
    ELSE hstack_missing(Append(a_12_array, fill_column(Head(entries))),
                        Tail(entries))

\* a_12_array[:, np.argsort(a_12_array[0])]: the columns ordered by key
sort_by_key(a_12_array) ==
    LET n == Len(a_12_array)
        Before(j, k) == \/ a_12_array[j][1] < a_12_array[k][1]
                        \/ a_12_array[j][1] = a_12_array[k][1] /\ j < k
        Rank(k) == Cardinality({j \in 1..n : Before(j, k)}) + 1
    IN  [i \in 1..n |-> a_12_array[CHOOSE k \in 1..n : Rank(k) = i]]

\* np.argwhere(a_1 == surplus_entry): the 0-based positions in the ORIGINAL a_1
argwhere(keys, entry) == {i - 1 : i \in {j \in DOMAIN keys : keys[j] = entry}}

\* np.delete(a_12_array, index, axis=1) on the array as it is now: IndexError
\* when a position lies outside it.  arr is [raised, cols].
np_delete(arr, index) ==
    IF arr.raised # "none" THEN arr
    ELSE IF \E p \in index : p >= Len(arr.cols)
         THEN [raised |-> "IndexError", cols |-> <<>>]
    ELSE LET keep == Ascending({i \in 1..Len(arr.cols) : (i - 1) \notin index})
         IN  [raised |-> "none",
              cols |-> [i \in 1..Len(keep) |-> arr.cols[keep[i]]]]

RECURSIVE delete_surplus(_, _, _)
\* the else-branch loop `for surplus_entry in target_is_subset`: a Python set
\* yields its elements in no specified order, so every order is taken; the
\* result is the set of arrays the loop can end with
delete_surplus(arr, keys, remaining) ==
    IF remaining = {} \/ arr.raised # "none" THEN {arr}
    ELSE UNION {delete_surplus(np_delete(arr, argwhere(keys, surplus_entry)),
                               keys, remaining \ {surplus_entry}) :
                    surplus_entry \in remaining}

\* the branch taken: zero-fill and sort when the target has a key the source
\* lacks, otherwise delete the surplus keys
takes_fill_branch_on_surplus(target_is_superset, target_is_subset) ==
    target_is_superset # {} /\ target_is_subset # {}
takes_fill_branch(target_is_superset, target_is_subset) ==
    target_is_superset # {}

\* every result one call can give
coerce_sorted_key_value_pair_to_target(keys, values, target) ==
    LET a_12_array == vstack(keys, values)
        target_is_superset == SetOf(target) \ SetOf(keys)
        target_is_subset == SetOf(keys) \ SetOf(target)
        outs == IF takes_fill_branch(target_is_superset, target_is_subset)
                THEN {[raised |-> "none",
                       cols |-> sort_by_key(hstack_missing(a_12_array,
                                    Ascending(target_is_superset)))]}
                ELSE delete_surplus([raised |-> "none", cols |-> a_12_array],
                                    keys, target_is_subset)
    IN  {[raised |-> out.raised,
          keys |-> [i \in DOMAIN out.cols |-> out.cols[i][1]],
          values |-> [i \in DOMAIN out.cols |-> out.cols[i][2]]] : out \in outs}

-----------------------------------------------------------------------------
(* integer_bin_means, radiative_transfer.py:145-171 *)

\* np.rint of a float given in tenths: round to nearest, ties to the even
\* integer (IEEE 754 roundTiesToEven)
np_rint(w10) ==
    LET q == w10 \div 10
        r == w10 % 10
    IN  IF r < 5 THEN q
        ELSE IF r > 5 THEN q + 1
        ELSE IF q % 2 = 0 THEN q ELSE q + 1

RECURSIVE RSum(_)
RSum(s) == IF s = <<>> THEN Zero ELSE RAdd(Head(s), RSum(Tail(s)))

\* np.mean over the selected values
np_mean_as_sum(s) == RSum(s)
np_mean(s) == RDiv(RSum(s), R(Len(s)))

\* (column_1)[mask]
masked(values, mask) ==
    LET idx == Ascending({i \in DOMAIN values : mask[i]})
    IN  [i \in 1..Len(idx) |-> values[idx[i]]]

integer_bin_means(col_0, col_1) ==
    LET int_bins == [i \in DOMAIN col_0 |-> np_rint(col_0[i])]
        col_0_unique == Ascending(SetOf(int_bins))
        means == [i \in DOMAIN col_0_unique |->
                    np_mean(masked(col_1,
                        [j \in DOMAIN int_bins |-> int_bins[j] = col_0_unique[i]]))]
    IN  [keys |-> col_0_unique, means |-> means]

-----------------------------------------------------------------------------
(* integer_bin_means(data), src/src/radiative_transfer.py:153-163 *)

\* a float with one decimal, in tenths
tenths(x) == (10 * x.n) \div x.d

\* ods[:, 1:] (line 106): the n x 2 array of the rows (wave_no,
\* optical_depth), held as its sequence of rows
ods_columns(col_0, col_1) ==
    [i \in DOMAIN col_0 |-> <<Rat(col_0[i], 10), col_1[i]>>]

\* if data.shape[0] != 2: data = data.transpose() (lines 155-156); the
\* result is the pair (data[0], data[1])
transpose_unless_two_rows(data) ==
    IF Len(data) # 2
    THEN <<[i \in DOMAIN data |-> data[i][1]], [i \in DOMAIN data |-> data[i][2]]>>
    ELSE <<data[1], data[2]>>

\* lines 157-163 are lines 165-171 of the two-argument function, on data[0]
\* and data[1]
integer_bin_means_data(data) ==
    LET rows == transpose_unless_two_rows(data)
        bins == integer_bin_means([i \in DOMAIN rows[1] |-> tenths(rows[1][i])],
                                  rows[2])
    IN  [called |-> TRUE, keys |-> bins.keys, means |-> bins.means]

-----------------------------------------------------------------------------
(* The store as fetch_od_from_db reads it, radiative_transfer.py:65-87 *)

alt_min(req) == req.alt_range[1]
alt_max(req) == req.alt_range[2]
wave_no_min(req) == req.wave_no_range[1]
wave_no_max(req) == req.wave_no_range[2]

\* WHERE (wave_no BETWEEN min and max) and (altitude BETWEEN min and max) and
\* (mol_id = gas_id); altitudes are in halves of a metre, wavenumbers in tenths
od_array(table, gas, req) ==
    {r \in table :
        /\ r.gas = gas
        /\ 10 * wave_no_min(req) <= r.wave_no /\ r.wave_no <= 10 * wave_no_max(req)
        /\ 2 * alt_min(req) <= r.altitude /\ r.altitude <= 2 * alt_max(req)}

\* SELECT DISTINCT altitude from optical_depths: every gas, no window
distinct_altitudes(table) == {r.altitude : r \in table}

\* the test of line 86 on one stored altitude
is_layer_closed(i, req) == (i >= 2 * alt_min(req)) /\ (i <= 2 * alt_max(req))
is_layer(i, req) == (i > 2 * alt_min(req)) /\ (i < 2 * alt_max(req))

RECURSIVE select_alts(_, _)
\* lines 84-87: the altitudes kept, in the order the store returned them
select_alts(alts, req) ==
    IF alts = <<>> THEN <<>>
    ELSE (IF is_layer(Head(alts), req) THEN <<Head(alts)>> ELSE <<>>)
             \o select_alts(Tail(alts), req)

\* int(alt) of a non-negative altitude held in halves of a metre
int_of(alt) == alt \div 2

-----------------------------------------------------------------------------
(* fetch_od_from_db, radiative_transfer.py:88-103 *)

\* lines 89-92: the progress bar is disabled unless verbose
disable_tqdm(verbose) == ~verbose

\* tqdm(iterable, disable=...) yields the elements of its iterable in order,
\* with or without the bar
tqdm_skipping(iterable, disable) == IF disable THEN iterable ELSE <<>>
tqdm(iterable, disable) == iterable

EmptyDict == [keys |-> <<>>, val |-> <<>>]

\* od_dict.update({key: value}): a new key goes last, a known key keeps its
\* place and takes the new value
dict_update(d, key, value) ==
    [keys |-> IF key \in SetOf(d.keys) THEN d.keys ELSE Append(d.keys, key),
     val |-> [k \in SetOf(d.keys) \cup {key} |->
                 IF k = key THEN value ELSE d.val[k]]]

\* the rows of one altitude (lines 94-95) as the two columns handed to
\* integer_bin_means
layer_columns(rows, alt) ==
    LET ods == {r \in rows : r.altitude = alt}
        wn == Ascending({r.wave_no : r \in ods})
    IN  [wave_no |-> wn,
         optical_depth |-> [i \in DOMAIN wn |->
             (CHOOSE r \in ods : r.wave_no = wn[i]).optical_depth]]

RECURSIVE fetch_layers(_, _, _, _)
\* the loop of lines 93-102 over alt_list; acc is [raised, od_dict,
\* binned_wave_nos]; the result is every state the loop can end in
fetch_layers(acc, rows, alts, axis) ==
    IF alts = <<>> \/ acc.raised # "none" THEN {acc}
    ELSE LET alt == Head(alts)
             cols == layer_columns(rows, alt)
             bins == integer_bin_means(cols.wave_no, cols.optical_depth)
             after(c) ==
                 IF c.raised # "none" THEN [acc EXCEPT !.raised = c.raised]
                 ELSE [raised |-> "none",
                       od_dict |-> dict_update(acc.od_dict, int_of(alt), c.values),
                       binned_wave_nos |-> c.keys]
         IN  UNION {fetch_layers(after(c), rows, Tail(alts), axis) :
                        c \in coerce_sorted_key_value_pair_to_target(
                                  bins.keys, bins.means, axis)}

\* one call for one gas, given the order in which the store returns its
\* distinct altitudes: every [raised, od_dict, binned_wave_nos, dtype, alt_list]
\* it can end with.  A gas the table gases lacks makes gas_df["mol_id"][0]
\* raise KeyError; with no altitude selected the loop never binds
\* binned_wave_nos and the return raises UnboundLocalError; a query that
\* returns no row gives an object-dtype array, a non-empty one float64.
fetch_od_from_db(tbl_gases, table, gas, req, alts) ==
    LET rows == od_array(table, gas, req)
        kept == select_alts(alts, req)
        looped == tqdm(kept, disable_tqdm(req.verbose))
        axis == arange(wave_no_min(req), wave_no_max(req))
        dtype == IF rows = {} THEN "object" ELSE "float64"
        start == [raised |-> "none", od_dict |-> EmptyDict,
                  binned_wave_nos |-> <<>>]
        done(acc) == [raised |-> acc.raised, od_dict |-> acc.od_dict,
                      binned_wave_nos |-> acc.binned_wave_nos,
                      dtype |-> dtype, alt_list |-> kept]
    IN  IF gas \notin tbl_gases
        THEN {[raised |-> "KeyError", od_dict |-> EmptyDict,
               binned_wave_nos |-> <<>>, dtype |-> dtype, alt_list |-> <<>>]}
        ELSE IF looped = <<>>
        THEN {[raised |-> "UnboundLocalError", od_dict |-> EmptyDict,
               binned_wave_nos |-> <<>>, dtype |-> dtype, alt_list |-> kept]}
        ELSE {done(acc) : acc \in fetch_layers(start, rows, looped, axis)}

-----------------------------------------------------------------------------
(* AtmosphereGrid.__init__ and get_optical_depth, radiative_transfer.py:175-217 *)

\* od_df = 0
IntZero == [columns |-> <<>>, val |-> <<>>, dtype |-> "int"]

\* pd.DataFrame(od_dict): one column per key in insertion order; arrays of
\* unequal length raise ValueError
DataFrame(od_dict, dtype) ==
    IF \E j \in SetOf(od_dict.keys) : \E k \in SetOf(od_dict.keys) :
           Len(od_dict.val[j]) # Len(od_dict.val[k])
    THEN [raised |-> "ValueError", df |-> IntZero]
    ELSE [raised |-> "none",
          df |-> [columns |-> od_dict.keys, val |-> od_dict.val, dtype |-> dtype]]

\* od_df += frame: 0 + frame is the frame; two frames add cell by cell on
\* equal labels, and a label or row that one of them lacks gives nan
df_add_overwrite(od_df, frame) == frame
df_add(od_df, frame) ==
    IF od_df.dtype = "int" THEN frame
    ELSE LET labels == IF od_df.columns = frame.columns THEN od_df.columns
                       ELSE Ascending(SetOf(od_df.columns) \cup SetOf(frame.columns))
             both(c) == c \in SetOf(od_df.columns) /\ c \in SetOf(frame.columns)
             RowLen(f) == IF f.columns = <<>> THEN 0 ELSE Len(f.val[f.columns[1]])
             rows == IF RowLen(od_df) > RowLen(frame) THEN RowLen(od_df)
                     ELSE RowLen(frame)
             cell(c, v) == IF both(c) /\ v <= Len(od_df.val[c]) /\ v <= Len(frame.val[c])
                           THEN RAdd(od_df.val[c][v], frame.val[c][v])
                           ELSE NaN
         IN  [columns |-> labels,
              val |-> [c \in SetOf(labels) |-> [v \in 1..rows |-> cell(c, v)]],
              dtype |-> IF od_df.dtype = "object" \/ frame.dtype = "object"
                        THEN "object" ELSE "float64"]

RECURSIVE get_optical_depth(_, _, _, _, _, _)
\* the loop of lines 204-216 over the gases still to load; acc is [raised,
\* od_df, wave_no_bins, bins_dtype, alt_list]
get_optical_depth(acc, gas_left, tbl_gases, table, req, alts) ==
    IF acc.raised # "none" THEN {acc}
    ELSE IF gas_left = <<>>
    THEN {IF acc.bound THEN acc ELSE [acc EXCEPT !.raised = "UnboundLocalError"]}
    ELSE UNION {
        LET frame == DataFrame(f.od_dict, f.dtype)
            next ==
                IF f.raised # "none"
                THEN [acc EXCEPT !.raised = f.raised, !.alt_list = f.alt_list]
                ELSE IF frame.raised # "none"
                THEN [acc EXCEPT !.raised = frame.raised, !.alt_list = f.alt_list]
                ELSE [raised |-> "none", bound |-> TRUE,
                      od_df |-> df_add(acc.od_df, frame.df),
                      wave_no_bins |-> f.binned_wave_nos,
                      bins_dtype |-> f.dtype,
                      alt_list |-> f.alt_list]
        IN  get_optical_depth(next, Tail(gas_left), tbl_gases, table, req, alts)
        : f \in fetch_od_from_db(tbl_gases, table, Head(gas_left), req, alts)}

\* the instance __init__ leaves behind (lines 183-192), or the exception
new_grid(req, loaded) ==
    IF loaded.raised # "none" THEN [raised |-> loaded.raised]
    ELSE [raised |-> "none",
          alt_min |-> alt_min(req), alt_max |-> alt_max(req),
          wave_no_min |-> wave_no_min(req), wave_no_max |-> wave_no_max(req),
          gases |-> req.gas,
          verbose |-> req.verbose,
          od_df |-> loaded.od_df,
          wave_no_bins |-> loaded.wave_no_bins,
          bins_dtype |-> loaded.bins_dtype,
          alt_list |-> loaded.od_df.columns,
          ones_grid |-> <<Len(loaded.od_df.columns), Len(loaded.wave_no_bins)>>]

\* the locals of get_optical_depth before its loop
NothingLoaded ==
    [raised |-> "none", bound |-> FALSE, od_df |-> IntZero,
     wave_no_bins |-> <<>>, bins_dtype |-> "float64", alt_list |-> <<>>]

\* AtmosphereGrid(alt_range, wave_no_range, *gas): the store answers SELECT
\* DISTINCT altitude in an order SQL leaves open, the same at every query of
\* one construction
AtmosphereGrid_init ==
    /\ pc = "start"
    /\ \E alts \in Perms(distinct_altitudes(optical_depths)) :
          \E loaded \in get_optical_depth(NothingLoaded,
                 request.gas, gases, optical_depths, request, alts) :
             /\ grid' = new_grid(request, loaded)
             /\ alt_list' = loaded.alt_list
             /\ pc' = IF loaded.raised = "none" THEN "built" ELSE "failed"
    /\ UNCHANGED <<storeVars, request, flux, calls, coerceVars, binVars, popVars>>

-----------------------------------------------------------------------------
(* isa.get_temperature, isa.py:7-56 *)

\* T = Tb + Lb * (h - hb), with Tb in hundredths of a kelvin and Lb in
\* ten-thousandths of a kelvin per metre
lapse(h, hb, Tb100, Lb10000) ==
    RAdd(Rat(Tb100, 100), RMul(Rat(Lb10000, 10000), R(h - hb)))

\* the scalar branch (lines 13-51); T = False counts as 0 in arithmetic
get_temperature(h) ==
    IF h < 11000 THEN lapse(h, 0, 28815, -65)
    ELSE IF h < 20000 THEN lapse(h, 11000, 21665, 0)
    ELSE IF h < 32000 THEN lapse(h, 20000, 21665, 10)
    ELSE IF h < 47000 THEN lapse(h, 32000, 22865, 28)
    ELSE IF h < 51000 THEN lapse(h, 47000, 27065, 0)
    ELSE IF h < 71000 THEN lapse(h, 51000, 27065, -28)
    ELSE IF h < 84852 THEN lapse(h, 71000, 21465, -20)
    ELSE Zero

\* storing a float into an element of an int64 array drops its fraction
astype_int(x) == R(Sign(x.n) * (Abs(x.n) \div x.d))

\* the iterable branch (lines 52-56) on a list of Python ints: np.zeros_like
\* of such a list is an int64 array, so each T[i] = get_temperature(height)
\* is stored truncated
get_temperature_list(h) == [i \in DOMAIN h |-> astype_int(get_temperature(h[i]))]

-----------------------------------------------------------------------------
(* plank_nu, plank.py:61-92 *)

\* np.exp.  e^x is not rational: the model takes its first-order
\* approximants, 1 + x for x >= 0 and 1 / (1 - x) for x < 0, which keep
\* e^0 = 1, e^x > 0, e^-x = 1 / e^x and strict monotonicity.
np_exp(x) ==
    IF IsNaN(x) THEN NaN
    ELSE IF IsInf(x) THEN (IF x.n > 0 THEN x ELSE Zero)
    ELSE IF x.n >= 0 THEN RAdd(One, x)
    ELSE RInv(RAdd(One, RNeg(x)))

\* the physical constants c_1 = 2hc^2/k^2 and c_2 = hc/k_B and the unit
\* factors (nu_ * 100, * 10**6) are normalised to 1; cst.pi is taken as 3
c_1 == One
c_2 == One
pifac(is_flux) == IF is_flux THEN R(3) ELSE One

\* pifac * c_1 * nu_**3 / (np.exp(c_2 * nu_ / temperature) - 1) * 10**6
\* the divisor np.exp(c_2 * nu_ / temperature) - 1 of line 90
planck_denominator(nu_, temperature) ==
    RAdd(np_exp(RDiv(RMul(c_2, nu_), temperature)), RNeg(One))

plank_nu(nu_, temperature, is_flux) ==
    LET nu3 == RMul(nu_, RMul(nu_, nu_))
    IN  RDiv(RMul(pifac(is_flux), RMul(c_1, nu3)),
             planck_denominator(nu_, temperature))

-----------------------------------------------------------------------------
(* AtmosphereGrid.get_blackbody_grid and flux_up, radiative_transfer.py:219-264 *)

\* tables are held by position: table[i][v] is the cell of the i-th column
\* (layer, in the order of od_df.columns) and the v-th row (wavenumber bin)

\* lines 230-233, transposed as flux_up uses it
get_blackbody_grid(g) ==
    LET temp_list == get_temperature_list([i \in DOMAIN g.alt_list |-> g.alt_list[i]])
    IN  [i \in 1..g.ones_grid[1] |->
            [v \in 1..g.ones_grid[2] |->
                plank_nu(R(g.wave_no_bins[v]), temp_list[i], TRUE)]]

\* the altitude whose temperature gives the ground flux (line 244)
surface_altitude(g) == g.alt_min

\* one step i (1-based, i >= 2) of the loop of lines 255-262
add_lower_block_dropped(cur, lower) == cur
add_lower_block(cur, lower) == RAdd(cur, lower)
square_surface_kept(x) == x
square_surface(x) == RMul(x, x)
\* the column added at step i: i - 1 (line 258)
lower_index_first(i) == 1
lower_index(i) == i - 1

RECURSIVE layer_walk(_, _)
\* st is [i, surf, block]: the loop from column i to the last one
layer_walk(st, n) ==
    IF st.i > n THEN st
    ELSE layer_walk(
           [i |-> st.i + 1,
            block |-> [st.block EXCEPT ![st.i] =
                          [v \in DOMAIN st.block[st.i] |->
                              add_lower_block(st.block[st.i][v],
                                              st.block[lower_index(st.i)][v])]],
            surf |-> [st.surf EXCEPT ![st.i - 1] =
                          [v \in DOMAIN st.surf[st.i - 1] |->
                              square_surface(st.surf[st.i - 1][v])]]],
           n)

\* pd.DataFrame(total_flux, columns=self.od_df.columns), line 264
flux_columns_sorted(g) == Ascending(SetOf(g.od_df.columns))
flux_columns(g) == g.od_df.columns

\* the whole call.  np.exp has no loop for an object-dtype array (TypeError);
\* with no wavenumber row, iloc[0, :] raises IndexError.
flux_up(g) ==
    LET n == Len(g.od_df.columns)
        m == IF n = 0 THEN 0 ELSE Len(g.od_df.val[g.od_df.columns[1]])
        ground_flux == [v \in 1..Len(g.wave_no_bins) |->
                           plank_nu(R(g.wave_no_bins[v]),
                                    get_temperature(surface_altitude(g)), TRUE)]
        transmission_all_alt ==
            [i \in 1..n |-> [v \in 1..m |->
                np_exp(RNeg(g.od_df.val[g.od_df.columns[i]][v]))]]
        blackbody_grid == get_blackbody_grid(g)
        flux_from_surf ==
            [i \in 1..n |-> [v \in 1..m |->
                RMul(transmission_all_alt[i][v], ground_flux[v])]]
        flux_from_ith_block ==
            [i \in 1..n |-> [v \in 1..m |->
                RMul(transmission_all_alt[i][v], blackbody_grid[i][v])]]
        walked == layer_walk([i |-> 2, surf |-> flux_from_surf,
                              block |-> flux_from_ith_block], n)
        total_flux == [i \in 1..n |-> [v \in 1..m |->
                          RAdd(walked.surf[i][v], walked.block[i][v])]]
    IN  IF m = 0 THEN [raised |-> "IndexError", called |-> TRUE]
        ELSE IF g.od_df.dtype = "object" \/ g.bins_dtype = "object"
        THEN [raised |-> "TypeError", called |-> TRUE]
        ELSE [raised |-> "none", called |-> TRUE,
              columns |-> flux_columns(g),
              ground_flux |-> ground_flux,
              blackbody_grid |-> blackbody_grid,
              transmission_all_alt |-> transmission_all_alt,
              initial_surf |-> flux_from_surf,
              initial_block |-> flux_from_ith_block,
              flux_from_surf |-> walked.surf,
              flux_from_ith_block |-> walked.block,
              val |-> total_flux]

\* the instance after a flux_up call: lines 243-264 assign no attribute of
\* self, and np.exp(-self.od_df), the products of lines 249-252 and
\* get_blackbody_grid's grids are new arrays, so the in-place updates of the
\* loop never reach self.od_df, self.wave_no_bins or self.ones_grid
self_after_flux_up_in_place(g) ==
    [g EXCEPT !.od_df =
        [columns |-> g.od_df.columns,
         val |-> [c \in DOMAIN g.od_df.val |->
                     [v \in DOMAIN g.od_df.val[c] |->
                         np_exp(RNeg(g.od_df.val[c][v]))]],
         dtype |-> g.od_df.dtype]]
self_after_flux_up(g) == g

\* one call grid.flux_up()
FluxUpCall ==
    /\ pc = "built"
    /\ flux' = flux_up(grid)
    /\ grid' = self_after_flux_up(grid)
    /\ calls' = calls + 1
    /\ UNCHANGED <<pc, storeVars, request, alt_list, coerceVars, binVars, popVars>>

\* the first call on an instance
FluxUp == calls = 0 /\ FluxUpCall

\* a further call on the same instance
FluxUpAgain == 0 < calls /\ calls < MaxCalls /\ FluxUpCall

-----------------------------------------------------------------------------
(* database_interaction.py and the population script __main__.py *)

\* Ghg.ids in the order of its items (hapi_wrapper.py:35), two of its gases
Ghg_ids == <<"CO2", "H2O">>
mol_id(mol_name) == IF mol_name = "CO2" THEN 2 ELSE 1

\* np.arange(500, 30500, 1000, dtype=float), its first two altitudes, in
\* halves of a metre
altitudes == <<1000, 3000>>

\* the spectrum hapi computes for one gas at one altitude, as the pairs
\* (nu in tenths, tau) that main zips
ghg_od_calculate(gas, alt) == <<<<10, One>>, <<15, R(2)>>>>

\* the row main inserts for sample k of (gas, alt)
od_row(gas, alt, k) ==
    [gas |-> gas, altitude |-> alt,
     wave_no |-> ghg_od_calculate(gas, alt)[k][1],
     optical_depth |-> ghg_od_calculate(gas, alt)[k][2]]

\* the insert breaks PRIMARY KEY mol_id of gases, or PRIMARY KEY (mol_id,
\* altitude, wave_no) of optical_depths
violates_constraint(table, rows, row) ==
    IF table = "gases" THEN row \in rows
    ELSE \E q \in rows :
             q.gas = row.gas /\ q.altitude = row.altitude /\ q.wave_no = row.wave_no

\* cur.lastrowid: mol_id is the rowid of gases; optical_depths numbers its
\* rows as they come
lastrowid(table, rows, row) ==
    IF table = "gases" THEN mol_id(row) ELSE Cardinality(rows) + 1

\* insert_query (lines 69-100): [raised, rows, returned], returned being {}
\* for None and {id} for a row id.  connection.cursor() on None raises
\* AttributeError, which `except Error` does not catch; an sqlite3 error is
\* caught, printed, and None is returned.
insert_query_propagating(connection, table, rows, row) ==
    IF connection = "none"
    THEN [raised |-> "AttributeError", rows |-> rows, returned |-> {}]
    ELSE IF violates_constraint(table, rows, row)
    THEN [raised |-> "IntegrityError", rows |-> rows, returned |-> {}]
    ELSE [raised |-> "none", rows |-> rows \cup {row},
          returned |-> {lastrowid(table, rows, row)}]
insert_query(connection, table, rows, row) ==
    IF connection = "none"
    THEN [raised |-> "AttributeError", rows |-> rows, returned |-> {}]
    ELSE IF violates_constraint(table, rows, row)
    THEN [raised |-> "none", rows |-> rows, returned |-> {}]
    ELSE [raised |-> "none", rows |-> rows \cup {row},
          returned |-> {lastrowid(table, rows, row)}]

\* column_comparison_query(conn, "optical_depths", "=", altitude=alt, mol_id=_id)
column_comparison_query(rows, gas, alt) ==
    {r \in rows : r.gas = gas /\ r.altitude = alt}

NotRunning ==
    [pc |-> "idle", gas |-> 1, alt |-> 1, nu |-> 1, runs |-> 0,
     handler |-> FALSE, reported |-> FALSE, on_none |-> {}]
NoInsert == [called |-> FALSE, raised |-> "none", returned |-> {}]
MainIdle == conn = "closed" /\ main = NotRunning /\ inserted = NoInsert

\* main() entered (line 23), with the locals of a fresh process
Entered(runs) == [NotRunning EXCEPT !.pc = "connect", !.runs = runs]

\* what main leaves alone
PopFrame == UNCHANGED <<pc, coerceVars, binVars, request, grid, alt_list, flux, calls>>

\* line 41: conn = create_connection(...); sqlite3.connect may fail, and
\* create_connection then prints the error and returns None
create_connection ==
    /\ main.pc = "connect"
    /\ conn' \in {"open", "none"}
    /\ main' = [main EXCEPT !.pc = "pragma"]
    /\ UNCHANGED <<storeVars, inserted>> /\ PopFrame

\* line 43: pragma(conn), before the test of conn; connection.execute on
\* None raises AttributeError and main ends
pragma ==
    /\ main.pc = "pragma"
    /\ main' = IF conn = "none"
               THEN [main EXCEPT !.pc = "crashed", !.on_none = @ \cup {"pragma"}]
               ELSE [main EXCEPT !.pc = "create_table"]
    /\ UNCHANGED <<conn, storeVars, inserted>> /\ PopFrame

\* lines 44-66: the tables are created if conn is not None, otherwise the
\* failure is reported; either way main goes on to populate gases
create_table ==
    /\ main.pc = "create_table"
    /\ main' = IF conn # "none"
               THEN [main EXCEPT !.pc = "gases", !.gas = 1]
               ELSE [main EXCEPT !.pc = "gases", !.gas = 1, !.reported = TRUE]
    /\ UNCHANGED <<conn, storeVars, inserted>> /\ PopFrame

\* what one insert_query call did to main: an AttributeError ends it, an
\* IntegrityError enters the handler of the try around the call
after_insert(m, r, onward) ==
    IF r.raised = "AttributeError"
    THEN [m EXCEPT !.pc = "crashed", !.on_none = @ \cup {"insert_query"}]
    ELSE IF r.raised = "IntegrityError"
    THEN [onward EXCEPT !.handler = TRUE]
    ELSE onward

\* the loops of lines 89-90 move to the next (gas, altitude) pair
next_pair(m) ==
    IF m.alt < Len(altitudes) THEN [m EXCEPT !.pc = "query", !.alt = @ + 1]
    ELSE IF m.gas < Len(Ghg_ids) THEN [m EXCEPT !.pc = "query", !.gas = @ + 1, !.alt = 1]
    ELSE [m EXCEPT !.pc = "done"]

\* lines 69-85: one turn of the loop populating gases
populate_gases ==
    /\ main.pc = "gases"
    /\ LET r == insert_query(conn, "gases", gases, Ghg_ids[main.gas])
           onward == IF main.gas < Len(Ghg_ids)
                     THEN [main EXCEPT !.gas = @ + 1]
                     ELSE [main EXCEPT !.pc = "query", !.gas = 1, !.alt = 1]
       IN  /\ gases' = r.rows
           /\ inserted' = [called |-> TRUE, raised |-> r.raised, returned |-> r.returned]
           /\ main' = after_insert(main, r, onward)
    /\ UNCHANGED <<conn, optical_depths>> /\ PopFrame

\* lines 91-94: the pair is computed only if the table holds no row of it
query_pair ==
    /\ main.pc = "query"
    /\ main' = IF column_comparison_query(optical_depths, Ghg_ids[main.gas],
                                          altitudes[main.alt]) = {}
               THEN [main EXCEPT !.pc = "insert", !.nu = 1]
               ELSE next_pair(main)
    /\ UNCHANGED <<conn, storeVars, inserted>> /\ PopFrame

\* lines 95-105: one sample of the pair is inserted and committed
insert_sample ==
    /\ main.pc = "insert"
    /\ LET gas == Ghg_ids[main.gas]
           alt == altitudes[main.alt]
           r == insert_query(conn, "optical_depths", optical_depths,
                             od_row(gas, alt, main.nu))
           onward == IF main.nu < Len(ghg_od_calculate(gas, alt))
                     THEN [main EXCEPT !.nu = @ + 1]
                     ELSE next_pair(main)
       IN  /\ optical_depths' = r.rows
           /\ inserted' = [called |-> TRUE, raised |-> r.raised, returned |-> r.returned]
           /\ main' = after_insert(main, r, onward)
    /\ UNCHANGED <<conn, gases>> /\ PopFrame

Running == {"connect", "pragma", "create_table", "gases", "query", "insert"}

\* the process is stopped between two statements; what was committed stays
Interrupt ==
    /\ main.pc \in Running
    /\ main' = [main EXCEPT !.pc = "killed"]
    /\ UNCHANGED <<conn, storeVars, inserted>> /\ PopFrame

\* main is run again on the same database file
Rerun ==
    /\ main.pc \in {"killed", "crashed"}
    /\ main.runs < MaxRuns
    /\ main' = Entered(main.runs + 1)
    /\ conn' = "closed"
    /\ inserted' = NoInsert
    /\ UNCHANGED storeVars /\ PopFrame

-----------------------------------------------------------------------------
(* Inputs of the two pure functions *)

KeyValues == {R(-1), R(10)}
Intervals == {arange(lo, hi) : lo \in 0..MaxKey, hi \in 0..MaxKey}

WaveNos10 == {1, 5, 12, 15, 25}
SampleValues == {R(1), R(3), R(5)}

NoGrid == [raised |-> "none"]
NoFlux == [raised |-> "none", called |-> FALSE]
NoRequest ==
    [alt_range |-> <<0, 0>>, wave_no_range |-> <<0, 0>>, gas |-> <<>>,
     verbose |-> FALSE]
GridIdle ==
    /\ gases = {} /\ optical_depths = {} /\ request = NoRequest
    /\ grid = NoGrid /\ alt_list = <<>> /\ flux = NoFlux /\ calls = 0

NoCall == [raised |-> "none", keys |-> <<>>, values |-> <<>>]
NoBins == [keys |-> <<>>, means |-> <<>>]
NoData == [called |-> FALSE, keys |-> <<>>, means |-> <<>>]

InitCoerce ==
    /\ pc = "start"
    /\ \E K \in SUBSET (0..MaxKey) :
          /\ a_1 = Ascending(K)
          /\ a_2 \in [1..Cardinality(K) -> KeyValues]
    /\ target_array \in Intervals
    /\ coerced = NoCall
    /\ column_0 = <<>> /\ column_1 = <<>> /\ binned = NoBins /\ binned_data = NoData
    /\ MainIdle
    /\ GridIdle

CallCoerce ==
    /\ pc = "start"
    /\ coerced' \in coerce_sorted_key_value_pair_to_target(a_1, a_2, target_array)
    /\ pc' = "done"
    /\ UNCHANGED <<a_1, a_2, target_array, binVars, gridVars, popVars>>

SpecCoerce == InitCoerce /\ [][CallCoerce]_vars

InitBin ==
    /\ pc = "start"
    /\ \E n \in 0..MaxSamples :
          /\ column_0 \in [1..n -> WaveNos10]
          /\ column_1 \in [1..n -> SampleValues]
    /\ binned = NoBins /\ binned_data = NoData
    /\ MainIdle
    /\ a_1 = <<>> /\ a_2 = <<>> /\ target_array = <<>> /\ coerced = NoCall
    /\ GridIdle

CallBin ==
    /\ pc = "start"
    /\ binned' = integer_bin_means(column_0, column_1)
    /\ pc' = "done"
    /\ UNCHANGED <<column_0, column_1, binned_data, coerceVars, gridVars, popVars>>

\* the same samples handed to the single-array variant as ods[:, 1:]
CallBinData ==
    /\ ~binned_data.called
    /\ binned_data' = integer_bin_means_data(ods_columns(column_0, column_1))
    /\ UNCHANGED <<pc, column_0, column_1, binned, coerceVars, gridVars, popVars>>

NextBin == CallBin \/ CallBinData

SpecBin == InitBin /\ [][NextBin]_vars

-----------------------------------------------------------------------------
(* The grid: a store, a request, the construction and the flux computation *)

GasNames == {"H2O", "CO2"}
\* stored altitudes in halves of a metre: 1100, 1300, 1300.5, 1500
StoredAltitudes == {2200, 2600, 2601, 3000}
AltRanges == {<<1100, 1500>>, <<1100, 1700>>}
WaveRanges == {<<1, 1>>, <<1, 2>>}
\* raw samples (wavenumber in tenths, optical depth): 1.0 and 1.4 round to
\* bin 1, 1.5 to bin 2
RawSamples == {<<10, Zero>>, <<14, One>>, <<15, R(2)>>}
GasLists == {<<"CO2">>, <<"H2O", "CO2">>}
\* ranges with max < min, and the altitude range with no interior
InvertedAltRanges == {<<1500, 1100>>, <<1300, 1300>>}
InvertedWaveRanges == {<<2, 1>>}

\* the calls AtmosphereGrid(alt_range, wave_no_range, *gas, verbose=...) drawn
Requests ==
    [alt_range : AltRanges, wave_no_range : WaveRanges, gas : GasLists,
     verbose : {FALSE}]
    \cup [alt_range : InvertedAltRanges, wave_no_range : {<<1, 2>>},
          gas : {<<"CO2">>}, verbose : {FALSE}]
    \cup [alt_range : {<<1100, 1700>>}, wave_no_range : InvertedWaveRanges,
          gas : {<<"CO2">>}, verbose : {FALSE}]

Records ==
    {[gas |-> g, altitude |-> a, wave_no |-> smp[1], optical_depth |-> smp[2]] :
        g \in GasNames, a \in StoredAltitudes, smp \in RawSamples}

\* PRIMARY KEY (mol_id, altitude, wave_no)
KeyUnique(table) ==
    \A r \in table : \A q \in table :
        (r.gas = q.gas /\ r.altitude = q.altitude /\ r.wave_no = q.wave_no) => r = q

RECURSIVE Tables(_)
\* the tables of at most k rows
Tables(k) ==
    IF k = 0 THEN {{}}
    ELSE LET smaller == Tables(k - 1)
         IN  smaller \cup {t \cup {r} : t \in smaller, r \in Records}

Init ==
    /\ pc = "start"
    /\ optical_depths \in {t \in Tables(MaxRecords) : KeyUnique(t)}
    /\ gases \in {G \in SUBSET GasNames :
                    "H2O" \in G /\ {r.gas : r \in optical_depths} \subseteq G}
    /\ request \in Requests
    /\ grid = NoGrid /\ alt_list = <<>> /\ flux = NoFlux /\ calls = 0
    /\ a_1 = <<>> /\ a_2 = <<>> /\ target_array = <<>> /\ coerced = NoCall
    /\ column_0 = <<>> /\ column_1 = <<>> /\ binned = NoBins /\ binned_data = NoData
    /\ MainIdle

Next == AtmosphereGrid_init \/ FluxUp

Spec == Init /\ [][Next]_vars

-----------------------------------------------------------------------------
(* flux_up on a grid instance given directly *)

Reverse(seq) == [i \in DOMAIN seq |-> seq[Len(seq) + 1 - i]]

\* layer labels 1300, 1500, ... and the layer lists drawn: ascending, and
\* in the reverse order a store may give
LayerLabels == {1100 + 200 * k : k \in 1..MaxLayers}
LayerLists ==
    UNION {{Ascending(S), Reverse(Ascending(S))} : S \in SUBSET LayerLabels \ {{}}}

\* cells of the optical-depth field: over one bin 0, 1 and -1, over two bins
\* 0 and 1
OdValues(m) == IF m = 1 THEN {Zero, One, R(-1)} ELSE {Zero, One}

\* wavenumber windows of the grids drawn
FluxWindows == {<<1, 1>>, <<1, 2>>, <<0, 1>>}

FluxRequest(w) ==
    [alt_range |-> <<1100, 1300 + 200 * MaxLayers>>, wave_no_range |-> w,
     gas |-> <<"CO2">>, verbose |-> FALSE]

\* the instances __init__ leaves for such a field
FluxGrids ==
    UNION {UNION {
        {new_grid(FluxRequest(w),
                  [raised |-> "none",
                   od_df |-> [columns |-> cols, val |-> od, dtype |-> "float64"],
                   wave_no_bins |-> arange(w[1], w[2]),
                   bins_dtype |-> "float64"]) :
            od \in [SetOf(cols) ->
                       [1..(w[2] - w[1] + 1) -> OdValues(w[2] - w[1] + 1)]]}
        : cols \in LayerLists} : w \in FluxWindows}

\* an instance already constructed; the store that produced it plays no part
InitFlux ==
    /\ pc = "built"
    /\ grid \in FluxGrids
    /\ request = [alt_range |-> <<grid.alt_min, grid.alt_max>>,
                  wave_no_range |-> <<grid.wave_no_min, grid.wave_no_max>>,
                  gas |-> grid.gases, verbose |-> FALSE]
    /\ gases = {} /\ optical_depths = {}
    /\ alt_list = [i \in DOMAIN grid.alt_list |-> 2 * grid.alt_list[i]]
    /\ flux = NoFlux /\ calls = 0
    /\ a_1 = <<>> /\ a_2 = <<>> /\ target_array = <<>> /\ coerced = NoCall
    /\ column_0 = <<>> /\ column_1 = <<>> /\ binned = NoBins /\ binned_data = NoData
    /\ MainIdle

NextFlux == FluxUp \/ FluxUpAgain

SpecFlux == InitFlux /\ [][NextFlux]_vars

-----------------------------------------------------------------------------
(* Construction and flux_up with and without verbose=True *)

VerboseRequests ==
    [alt_range : {<<1100, 1700>>}, wave_no_range : WaveRanges, gas : GasLists,
     verbose : BOOLEAN]

\* stores of two altitudes and of samples at 1.0 and 1.5 cm^-1
VerboseTables ==
    {t \in Tables(MaxRecords) :
        /\ KeyUnique(t)
        /\ \A r \in t : r.altitude \in {2600, 3000} /\ r.wave_no \in {10, 15}}

InitVerbose ==
    /\ pc = "start"
    /\ optical_depths \in VerboseTables
    /\ gases \in {G \in SUBSET GasNames :
                    "H2O" \in G /\ {r.gas : r \in optical_depths} \subseteq G}
    /\ request \in VerboseRequests
    /\ grid = NoGrid /\ alt_list = <<>> /\ flux = NoFlux /\ calls = 0
    /\ a_1 = <<>> /\ a_2 = <<>> /\ target_array = <<>> /\ coerced = NoCall
    /\ column_0 = <<>> /\ column_1 = <<>> /\ binned = NoBins /\ binned_data = NoData
    /\ MainIdle

SpecVerbose == InitVerbose /\ [][Next]_vars

-----------------------------------------------------------------------------
(* The population script run on a new database file, stopped and run again *)

InitPopulate ==
    /\ pc = "start"
    /\ gases = {} /\ optical_depths = {}
    /\ request = NoRequest
    /\ grid = NoGrid /\ alt_list = <<>> /\ flux = NoFlux /\ calls = 0
    /\ a_1 = <<>> /\ a_2 = <<>> /\ target_array = <<>> /\ coerced = NoCall
    /\ column_0 = <<>> /\ column_1 = <<>> /\ binned = NoBins
    /\ binned_data = NoData
    /\ conn = "closed" /\ main = Entered(1) /\ inserted = NoInsert

NextPopulate ==
    \/ create_connection
    \/ pragma
    \/ create_table
    \/ populate_gases
    \/ query_pair
    \/ insert_sample
    \/ Interrupt
    \/ Rerun

SpecPopulate == InitPopulate /\ [][NextPopulate]_vars

-----------------------------------------------------------------------------
(* Claims about coerce_sorted_key_value_pair_to_target (SpecCoerce) *)

Returned == pc = "done" /\ coerced.raised = "none"
MissingKeys == SetOf(target_array) \ SetOf(a_1)
SurplusKeys == SetOf(a_1) \ SetOf(target_array)
\* the source value stored under a source key
SourceValue(k) == a_2[CHOOSE i \in DOMAIN a_1 : a_1[i] = k]
\* the output holds key k exactly once, with value v
HoldsOnce(k, v) ==
    /\ Cardinality({i \in DOMAIN coerced.keys : coerced.keys[i] = k}) = 1
    /\ \A i \in DOMAIN coerced.keys : coerced.keys[i] = k => coerced.values[i] = v

\* C1: for every target axis T and sorted duplicate-free keys K the call
\* returns keys that are exactly T, ascending, with one value per key, also
\* when K has keys missing from T and keys outside T at once.
C1_CoercedKeysEqualTarget ==
    pc = "done" =>
        /\ coerced.raised = "none"
        /\ coerced.keys = target_array
        /\ Len(coerced.values) = Len(coerced.keys)

\* C2: every source key absent from the target is dropped without error, no
\* key outside the target is returned, and every key in both K and T keeps
\* its source value.
C2_SurplusKeysDropped ==
    pc = "done" =>
        /\ coerced.raised = "none"
        /\ SetOf(coerced.keys) \subseteq SetOf(target_array)
        /\ \A k \in SetOf(a_1) \cap SetOf(target_array) :
              HoldsOnce(k, SourceValue(k))

\* C3: in the output every target key absent from the source keys is held
\* once with value exactly 0, and the zero-fill raises nothing and alters no
\* source value: every source key it returns still carries its source value.
C3_MissingKeysZeroFilled ==
    pc = "done" =>
        /\ MissingKeys # {} => coerced.raised = "none"
        /\ coerced.raised = "none" =>
              /\ \A t \in MissingKeys : HoldsOnce(t, Zero)
              /\ MissingKeys # {} =>
                    \A k \in SetOf(a_1) : HoldsOnce(k, SourceValue(k))

\* C3 witness: a call that zero-filled two target keys around kept source keys
C3_Witness ==
    /\ Returned
    /\ Cardinality(MissingKeys) >= 2
    /\ Len(a_1) >= 2
    /\ \E i \in DOMAIN coerced.values : coerced.values[i] = Zero
    /\ \E i \in DOMAIN coerced.values : coerced.values[i] # Zero

-----------------------------------------------------------------------------
(* Claims about integer_bin_means (SpecBin) *)

\* the samples whose wavenumber np.rint sends to key k
SamplesOf(k) == {j \in DOMAIN column_0 : np_rint(column_0[j]) = k}

RECURSIVE SumOver(_)
SumOver(J) ==
    IF J = {} THEN Zero
    ELSE LET j == CHOOSE x \in J : TRUE
         IN  RAdd(column_1[j], SumOver(J \ {j}))

\* C4: the keys returned are exactly the integers some sample rounds to,
\* unique and strictly ascending, and the value of each key is the arithmetic
\* mean (sum divided by count) of exactly the samples rounding to that key.
C4_BinValueIsMean ==
    pc = "done" =>
        /\ Len(binned.means) = Len(binned.keys)
        /\ SetOf(binned.keys) = {np_rint(column_0[j]) : j \in DOMAIN column_0}
        /\ \A i \in DOMAIN binned.keys : \A j \in DOMAIN binned.keys :
              i < j => binned.keys[i] < binned.keys[j]
        /\ \A i \in DOMAIN binned.keys :
              /\ SamplesOf(binned.keys[i]) # {}
              /\ RMul(binned.means[i], R(Cardinality(SamplesOf(binned.keys[i]))))
                     = SumOver(SamplesOf(binned.keys[i]))

\* C4 witness: a bin that averaged several samples, next to another bin
C4_Witness ==
    /\ pc = "done"
    /\ Len(binned.keys) >= 2
    /\ \E i \in DOMAIN binned.keys :
          /\ Cardinality(SamplesOf(binned.keys[i])) >= 2
          /\ binned.means[i] # SumOver(SamplesOf(binned.keys[i]))

\* C5: a wavenumber exactly halfway between two integers is binned half away
\* from zero (0.5 -> 1, 1.5 -> 2, 2.5 -> 3), so [0.1, 0.5, 1.2] with values
\* [1, 3, 5] gives keys [0, 1] and means [1, 4].
C5_TiesRoundAwayFromZero ==
    pc = "done" =>
        /\ \A j \in DOMAIN column_0 :
              column_0[j] % 10 = 5 =>
                  (column_0[j] + 5) \div 10 \in SetOf(binned.keys)
        /\ (column_0 = <<1, 5, 12>> /\ column_1 = <<R(1), R(3), R(5)>>) =>
              binned = [keys |-> <<0, 1>>, means |-> <<R(1), R(4)>>]

-----------------------------------------------------------------------------
(* Claims about the grid (Spec) *)

Built == pc = "built" /\ grid.raised = "none"
FluxReturned == Built /\ flux.called /\ flux.raised = "none"

\* the stored altitudes strictly inside the requested range
InsideAltitudes ==
    {a \in distinct_altitudes(optical_depths) :
        2 * alt_min(request) < a /\ a < 2 * alt_max(request)}

\* the stored altitude whose row a layer label carries: the last one selected
\* with that integer part
LayerAltitude(label) ==
    alt_list[CHOOSE i \in DOMAIN alt_list :
                /\ int_of(alt_list[i]) = label
                /\ \A j \in DOMAIN alt_list : int_of(alt_list[j]) = label => j <= i]

\* the samples of one gas, at one altitude, inside the window, that round to
\* one bin of the axis
GasSamples(g, a, bin) ==
    {r \in optical_depths :
        /\ r.gas = g /\ r.altitude = a /\ np_rint(r.wave_no) = bin
        /\ 10 * wave_no_min(request) <= r.wave_no
        /\ r.wave_no <= 10 * wave_no_max(request)}

RECURSIVE SumOd(_)
SumOd(rs) ==
    IF rs = {} THEN Zero
    ELSE LET r == CHOOSE x \in rs : TRUE
         IN  RAdd(r.optical_depth, SumOd(rs \ {r}))

\* the resampled optical depth of one gas at one cell: the mean of its samples
\* in the bin, 0 for a bin without sample
GasCell(g, a, bin) ==
    IF GasSamples(g, a, bin) = {} THEN Zero
    ELSE RDiv(SumOd(GasSamples(g, a, bin)), R(Cardinality(GasSamples(g, a, bin))))

RECURSIVE SumGases(_, _, _)
SumGases(gs, a, bin) ==
    IF gs = <<>> THEN Zero
    ELSE RAdd(GasCell(Head(gs), a, bin), SumGases(Tail(gs), a, bin))

Axis == arange(wave_no_min(request), wave_no_max(request))

\* C6: after construction the optical-depth field has one column per layer
\* and one row per bin of the axis, and each cell is the sum over the
\* requested gases of the gas's resampled optical depth at that cell.
C6_FieldIsSumOverGases ==
    Built =>
        /\ SetOf(grid.od_df.columns) = {int_of(a) : a \in SetOf(alt_list)}
        /\ \A label \in SetOf(grid.od_df.columns) :
              /\ Len(grid.od_df.val[label]) = Len(Axis)
              /\ \A v \in DOMAIN Axis :
                    grid.od_df.val[label][v]
                        = SumGases(request.gas, LayerAltitude(label), Axis[v])

\* C6 witness: a grid of two gases that both absorb in one cell
C6_Witness ==
    /\ Built
    /\ Len(request.gas) = 2
    /\ \E label \in SetOf(grid.od_df.columns) : \E v \in DOMAIN Axis :
          /\ GasCell(request.gas[1], LayerAltitude(label), Axis[v]) # Zero
          /\ GasCell(request.gas[2], LayerAltitude(label), Axis[v]) # Zero

C8_MissingGasIsFatal ==
    pc = "built" =>
        \A i \in DOMAIN request.gas :
            /\ request.gas[i] \in gases
            /\ od_array(optical_depths, request.gas[i], request) # {}

\* every cell of the optical-depth field is 0
Transparent ==
    \A label \in SetOf(grid.od_df.columns) :
        \A v \in DOMAIN grid.od_df.val[label] : grid.od_df.val[label][v] = Zero

RECURSIVE SumBlackbody(_, _)
\* blackbody[1, v] + ... + blackbody[j, v]
SumBlackbody(j, v) ==
    IF j = 0 THEN Zero
    ELSE RAdd(SumBlackbody(j - 1, v), flux.blackbody_grid[j][v])

\* C9: for a fully transparent atmosphere the total flux that flux_up returns
\* for the top layer (the last of the layer list) is ground_flux[v] plus the
\* sum of blackbody[j, v] over all layers j.
C9_TransparentTopFlux ==
    (FluxReturned /\ Transparent) =>
        LET n == Len(flux.columns)
        IN  \A v \in DOMAIN flux.val[n] :
                flux.val[n][v] = RAdd(flux.ground_flux[v], SumBlackbody(n, v))

\* C9 witness: the flux of a transparent grid of two layers
C9_Witness ==
    /\ FluxReturned /\ Transparent
    /\ Len(flux.columns) = 2
    /\ flux.columns[1] < flux.columns[2]

StrictlyAscending(seq) ==
    \A i \in DOMAIN seq : \A j \in DOMAIN seq : i < j => seq[i] < seq[j]

\* C10: flux_up on a grid whose layer list is not in strictly ascending
\* altitude order raises an error and returns no flux table.
C10_UnsortedLayersRejected ==
    (Built /\ flux.called /\ ~StrictlyAscending(grid.alt_list)) =>
        flux.raised # "none"

\* an altitude range with no interior, or a wavenumber range with max < min
BadRange ==
    \/ alt_max(request) <= alt_min(request)
    \/ wave_no_max(request) < wave_no_min(request)

\* C11: constructing a grid with an empty or inverted altitude range, or an
\* empty or inverted wavenumber range, fails with an error: no grid instance
\* is produced, in particular none with zero layers or zero wavenumber bins.
C11_BadRangeFailsConstruction ==
    (BadRange /\ pc # "start") => (pc = "failed" /\ grid.raised # "none")

\* the integers wave_no_min, wave_no_min + 1, ..., wave_no_max
IntegersOfWindow ==
    LET lo == wave_no_min(request)
        hi == wave_no_max(request)
    IN  [i \in 1..(IF hi < lo THEN 0 ELSE hi + 1 - lo) |-> lo + (i - 1)]

\* the binned keys of one gas at one selected altitude, before coercion
BinnedKeys(g, a) ==
    LET cols == layer_columns(od_array(optical_depths, g, request), a)
    IN  integer_bin_means(cols.wave_no, cols.optical_depth).keys

\* every row the resampler can return for one gas at one selected altitude
ResampledRows(g, a) ==
    LET cols == layer_columns(od_array(optical_depths, g, request), a)
        bins == integer_bin_means(cols.wave_no, cols.optical_depth)
    IN  coerce_sorted_key_value_pair_to_target(bins.keys, bins.means,
            arange(wave_no_min(request), wave_no_max(request)))

\* C12: the wavenumber axis of a constructed grid is exactly the integers
\* wave_no_min, ..., wave_no_max in order, and the row of every gas at every
\* layer carries these same keys, in this order, with one value per key.
C12_AxisIsIntegerWindow ==
    Built =>
        /\ grid.wave_no_bins = IntegersOfWindow
        /\ \A label \in SetOf(grid.od_df.columns) :
              Len(grid.od_df.val[label]) = Len(IntegersOfWindow)
        /\ \A i \in DOMAIN request.gas : \A j \in DOMAIN alt_list :
              \A c \in ResampledRows(request.gas[i], alt_list[j]) :
                  /\ c.raised = "none"
                  /\ c.keys = IntegersOfWindow
                  /\ Len(c.values) = Len(IntegersOfWindow)

\* C12 witness: a grid of two gases over a two-bin axis where the samples of
\* one gas cover every bin at a layer and those of the other do not
C12_Witness ==
    /\ Built
    /\ Len(request.gas) = 2
    /\ Len(IntegersOfWindow) = 2
    /\ \E i \in DOMAIN request.gas : \E j \in DOMAIN alt_list :
          BinnedKeys(request.gas[i], alt_list[j]) # IntegersOfWindow
    /\ \E i \in DOMAIN request.gas : \E j \in DOMAIN alt_list :
          BinnedKeys(request.gas[i], alt_list[j]) = IntegersOfWindow

\* the store returns no raw sample for gas g, in the window, at altitude a
NoSample(g, a) ==
    {r \in od_array(optical_depths, g, request) : r.altitude = a} = {}

\* the row of full axis length that is zero at every bin
ZeroRow == [v \in DOMAIN IntegersOfWindow |-> Zero]

\* C13: a layer for which the store returns no raw sample of the gas in the
\* window gets, for that gas, a row that is zero at every bin of the axis and
\* as long as the axis, and resampling the empty input raises no error; a
\* layer without sample of any requested gas is an all-zero column of the
\* constructed field.
C13_EmptyLayerRowIsZero ==
    /\ pc # "start" =>
          \A i \in DOMAIN request.gas : \A j \in DOMAIN alt_list :
              NoSample(request.gas[i], alt_list[j]) =>
                  \A c \in ResampledRows(request.gas[i], alt_list[j]) :
                      c.raised = "none" /\ c.values = ZeroRow
    /\ Built =>
          \A label \in SetOf(grid.od_df.columns) :
              (\A i \in DOMAIN request.gas :
                   NoSample(request.gas[i], LayerAltitude(label)))
                  => grid.od_df.val[label] = ZeroRow

\* C13 witness: a grid over a two-bin axis with a layer that has no sample
\* of one requested gas and one that has samples
C13_Witness ==
    /\ Built
    /\ Len(IntegersOfWindow) = 2
    /\ \E i \in DOMAIN request.gas : \E j \in DOMAIN alt_list :
          /\ NoSample(request.gas[i], alt_list[j])
          /\ grid.od_df.val[int_of(alt_list[j])] = ZeroRow
    /\ \E label \in SetOf(grid.od_df.columns) : grid.od_df.val[label] # ZeroRow

-----------------------------------------------------------------------------
(* Claims about flux_up, the instance and the verbosity flag *)

\* C14: the table flux_up returns has the shape of the optical-depth field:
\* one column per layer, labelled and ordered as the grid's layer list, and
\* one row per wavenumber bin, with one total-flux value in each cell.
C14_FluxTableHasFieldShape ==
    (pc = "built" /\ flux.called /\ flux.raised = "none") =>
        /\ flux.columns = grid.alt_list
        /\ flux.columns = grid.od_df.columns
        /\ Len(flux.val) = Len(grid.alt_list)
        /\ \A i \in DOMAIN flux.val :
              /\ Len(flux.val[i]) = Len(grid.wave_no_bins)
              /\ Len(flux.val[i]) = Len(grid.od_df.val[grid.alt_list[i]])
              /\ \A v \in DOMAIN flux.val[i] :
                    flux.val[i][v] = RAdd(flux.flux_from_surf[i][v],
                                          flux.flux_from_ith_block[i][v])

\* C14 witness: a table returned for three layers listed in descending
\* order over two bins
C14_Witness ==
    /\ pc = "built" /\ flux.called /\ flux.raised = "none"
    /\ Len(flux.columns) = 3
    /\ flux.columns[1] > flux.columns[2]
    /\ Len(grid.wave_no_bins) = 2

OtherVerbosity(req) == [req EXCEPT !.verbose = ~req.verbose]

\* every instance (or exception) a construction can give for one order of
\* the store's altitudes
Constructions(req, alts) ==
    {new_grid(req, loaded) :
        loaded \in get_optical_depth(NothingLoaded, req.gas, gases,
                                     optical_depths, req, alts)}

\* what a caller can observe of a construction followed by flux_up
Observed(g) ==
    IF g.raised # "none" THEN <<g.raised>>
    ELSE <<"built", g.alt_list, g.wave_no_bins, g.od_df, flux_up(g)>>

\* C16: the verbosity flag has no behavioural effect: over the same store,
\* ranges and gas list, construction and flux_up with the flag set give the
\* same layer list, axis, optical-depth field and flux table as without it.
C16_VerboseHasNoEffect ==
    /\ pc # "start" =>
          \A alts \in Perms(distinct_altitudes(optical_depths)) :
              {Observed(g) : g \in Constructions(request, alts)}
                  = {Observed(g) : g \in Constructions(OtherVerbosity(request), alts)}
    /\ Built =>
          \E alts \in Perms(distinct_altitudes(optical_depths)) :
              \E g \in Constructions(OtherVerbosity(request), alts) :
                  /\ g.raised = "none"
                  /\ g.alt_list = grid.alt_list
                  /\ g.wave_no_bins = grid.wave_no_bins
                  /\ g.od_df = grid.od_df
                  /\ flux.called => flux_up(g) = flux

\* C16 witness: a verbose construction of two gases and two layers, and its
\* flux table
C16_Witness ==
    /\ FluxReturned
    /\ request.verbose
    /\ Len(grid.alt_list) = 2
    /\ ~Transparent

\* flux_up returned a table for the instance
TableReturned == pc = "built" /\ flux.called /\ flux.raised = "none"

RECURSIVE EmissionUpTo(_, _)
\* transmission[1, v] * blackbody[1, v] + ... + transmission[i, v] * blackbody[i, v]
EmissionUpTo(i, v) ==
    IF i = 0 THEN Zero
    ELSE RAdd(EmissionUpTo(i - 1, v),
              RMul(flux.transmission_all_alt[i][v], flux.blackbody_grid[i][v]))

\* C17: after the layer walk the layer-emission term of layer i is the sum
\* over the layers j at or below i, in list order, of transmission[j, v] *
\* blackbody[j, v]; the first layer keeps its initial value and every layer
\* enters each sum once.
C17_EmissionIsCumulativeSum ==
    TableReturned =>
        /\ flux.flux_from_ith_block[1] = flux.initial_block[1]
        /\ \A i \in DOMAIN flux.flux_from_ith_block :
              \A v \in DOMAIN flux.flux_from_ith_block[i] :
                  flux.flux_from_ith_block[i][v] = EmissionUpTo(i, v)

\* C17 witness: a walk over three layers that all emit, the last sum
\* differing from what the top layer and the one below it give alone
C17_Witness ==
    /\ TableReturned
    /\ Len(flux.columns) = 3
    /\ \E v \in DOMAIN flux.initial_block[3] :
          /\ flux.initial_block[1][v] # Zero
          /\ flux.flux_from_ith_block[3][v]
                 # RAdd(flux.initial_block[3][v], flux.initial_block[2][v])

\* C18: after the layer walk over n >= 1 layers the surface term of every
\* layer but the last is the square of its initial value transmission[layer,
\* v] * ground_flux[v], the surface term of the last layer is its initial
\* value, no term holds a product of other layers' transmissions, and the
\* total of a cell is its surface term plus its layer-emission term.
C18_SurfaceTermSelfSquared ==
    TableReturned =>
        LET n == Len(flux.columns)
        IN  \A i \in 1..n : \A v \in DOMAIN flux.val[i] :
                LET initial == RMul(flux.transmission_all_alt[i][v],
                                    flux.ground_flux[v])
                IN  /\ flux.initial_surf[i][v] = initial
                    /\ flux.flux_from_surf[i][v]
                           = IF i < n THEN RMul(initial, initial) ELSE initial
                    /\ flux.val[i][v] = RAdd(flux.flux_from_surf[i][v],
                                              flux.flux_from_ith_block[i][v])

\* C18 witness: a walk over three layers of different transmission
C18_Witness ==
    /\ TableReturned
    /\ Len(flux.columns) = 3
    /\ \E v \in DOMAIN flux.val[1] :
          /\ flux.transmission_all_alt[1][v] # flux.transmission_all_alt[2][v]
          /\ flux.transmission_all_alt[2][v] # One
          /\ flux.flux_from_surf[2][v] # flux.initial_surf[2][v]

\* C19: after construction the grid's layer list, the column order of the
\* optical-depth field, is in strictly ascending altitude order whatever the
\* order in which the store returned its distinct altitudes.
C19_LayerListAscending ==
    Built =>
        /\ StrictlyAscending(grid.alt_list)
        /\ grid.od_df.columns = grid.alt_list

\* some cell of the optical-depth field is negative or not a number
BadOpticalDepth ==
    \E label \in SetOf(grid.od_df.columns) :
        \E v \in DOMAIN grid.od_df.val[label] :
            \/ IsNaN(grid.od_df.val[label][v])
            \/ RLess(grid.od_df.val[label][v], Zero)

\* C20: flux_up on a grid that holds a negative or not-a-number optical depth
\* aborts with an error before the accumulation loop and returns no table.
C20_BadOpticalDepthRejected ==
    (pc = "built" /\ flux.called /\ BadOpticalDepth) => flux.raised # "none"

-----------------------------------------------------------------------------
(* Claims about the temperatures and the Planck function in flux_up *)

\* C21: the temperature used for each layer's blackbody row is the
\* atmosphere model's temperature at the layer's altitude: the vectorized
\* get_temperature(list) holds at position i exactly the scalar
\* get_temperature(list[i]), not truncated to an integer.
C21_LayerTemperatureNotTruncated ==
    TableReturned =>
        \A i \in DOMAIN grid.alt_list :
            /\ get_temperature_list(grid.alt_list)[i]
                   = get_temperature(grid.alt_list[i])
            /\ \A v \in DOMAIN grid.wave_no_bins :
                  flux.blackbody_grid[i][v]
                      = plank_nu(R(grid.wave_no_bins[v]),
                                 get_temperature(grid.alt_list[i]), TRUE)

\* C22: the ground flux of flux_up is the Planck flux at the temperature the
\* atmosphere model gives at the altitude of the grid's first layer, whatever
\* alt_min was requested.
C22_GroundFluxAtFirstLayer ==
    TableReturned =>
        \A v \in DOMAIN grid.wave_no_bins :
            flux.ground_flux[v]
                = plank_nu(R(grid.wave_no_bins[v]),
                           get_temperature(grid.alt_list[1]), TRUE)

\* a division of plank_nu is well defined: the temperature it divides by is
\* not 0 and the divisor exp(c_2 * nu / T) - 1 is a finite number other than 0
WellDefined(nu_, temperature) ==
    /\ temperature # Zero
    /\ IsFinite(planck_denominator(nu_, temperature))
    /\ planck_denominator(nu_, temperature) # Zero

\* C23: blackbody and ground-flux evaluation never divide by zero: for every
\* bin of the axis, also a wavenumber 0, and the temperature of every layer
\* and of alt_min, nu / temperature and exp(c_2 * nu / T) - 1 are well
\* defined and the latter is not 0.
C23_NoDivisionByZero ==
    (pc = "built" /\ flux.called /\ flux.raised = "none") =>
        \A v \in DOMAIN grid.wave_no_bins :
            /\ WellDefined(R(grid.wave_no_bins[v]),
                           get_temperature(surface_altitude(grid)))
            /\ \A i \in DOMAIN grid.alt_list :
                  WellDefined(R(grid.wave_no_bins[v]),
                              get_temperature_list(grid.alt_list)[i])

-----------------------------------------------------------------------------
(* Claim about the layer labels (Spec) *)

\* C24: the grid has exactly one layer per distinct stored altitude strictly
\* inside the altitude range: two stored altitudes with the same integer part
\* are not merged into one layer, and the column of every such altitude
\* holds that altitude's own row.
C24_NoLayerMerged ==
    Built =>
        /\ Len(grid.alt_list) = Cardinality(InsideAltitudes)
        /\ \A a \in InsideAltitudes :
              /\ int_of(a) \in SetOf(grid.od_df.columns)
              /\ \A v \in DOMAIN Axis :
                    v \in DOMAIN grid.od_df.val[int_of(a)] =>
                        grid.od_df.val[int_of(a)][v]
                            = SumGases(request.gas, a, Axis[v])

-----------------------------------------------------------------------------
(* Claim about the single-array integer_bin_means (SpecBin) *)

\* C25: for every number n >= 0 of samples passed as n rows (wavenumber,
\* optical depth), the single-array integer_bin_means(data) takes column 0
\* as the wavenumbers and column 1 as the optical depths and returns the
\* keys and means of integer_bin_means(wavenumbers, optical_depths), also
\* for n = 2.
C25_SingleArrayVariantAgrees ==
    (pc = "done" /\ binned_data.called) =>
        /\ binned_data.keys = binned.keys
        /\ binned_data.means = binned.means

-----------------------------------------------------------------------------
(* Claims about the population of the database (SpecPopulate) *)

\* the samples ghg_od_calculate gives for one (gas, altitude) pair, as rows
PairSamples(gas, alt) ==
    {od_row(gas, alt, k) : k \in 1..Len(ghg_od_calculate(gas, alt))}

\* C26: population is resumable: whenever main has run to completion, also
\* after earlier runs were interrupted at any point (even between two
\* samples of one (gas, altitude) pair), every (gas, altitude) pair has its
\* complete set of samples and no (gas, altitude, wavenumber) row is
\* duplicated.
C26_PopulationResumable ==
    main.pc = "done" =>
        /\ \A i \in DOMAIN Ghg_ids : \A j \in DOMAIN altitudes :
              column_comparison_query(optical_depths, Ghg_ids[i], altitudes[j])
                  = PairSamples(Ghg_ids[i], altitudes[j])
        /\ KeyUnique(optical_depths)

\* C27: once create_connection has returned None and main has gone past its
\* next statement without being stopped, main has performed no operation on
\* the missing connection (no pragma, no table, no insert) and has reported
\* the failure.
C27_NothingDoneOnMissingConnection ==
    (conn = "none" /\ main.pc \notin {"pragma", "killed"}) =>
        /\ main.on_none = {}
        /\ main.reported

\* the step of main is one call insert_query(conn, table, row) on the
\* table holding `before`, which holds `after` when the call is over
InsertOutcome(table, before, after, row) ==
    /\ inserted'.called
    /\ inserted'.raised = "none"
    /\ IF violates_constraint(table, before, row)
       THEN after = before /\ inserted'.returned = {}
       ELSE /\ after = before \cup {row}
            /\ inserted'.returned = {lastrowid(table, before, row)}

\* C28: every insert_query call of main returns the last inserted row id
\* when the row is accepted; when the row breaks a constraint the call
\* leaves the table unchanged, returns None and raises nothing, and so the
\* IntegrityError handler around the call is never entered.
C28_InsertQuerySwallowsViolation ==
    [][/\ ~main'.handler
       /\ (main.pc = "gases" /\ main'.pc # "killed") =>
              InsertOutcome("gases", gases, gases', Ghg_ids[main.gas])
       /\ (main.pc = "insert" /\ main'.pc # "killed") =>
              InsertOutcome("optical_depths", optical_depths, optical_depths',
                            od_row(Ghg_ids[main.gas], altitudes[main.alt], main.nu))
      ]_vars

\* a second run has inserted a gas the first run had committed: the call
\* returned None, and an earlier call had returned a row id
C28_Witness ==
    /\ main.runs = 2
    /\ main.pc \in {"gases", "query"}
    /\ inserted.called /\ inserted.returned = {} /\ inserted.raised = "none"
    /\ gases # {}

====
